---- MODULE Spec2Model ----
(***************************************************************************)
(* Model of grapphopper.py: the geocoding / routing helpers, the summary   *)
(* formatting, the RoutePlannerGUI event handlers and the dialogue of main. *)
(*                                                                         *)
(* Representation.  Text that the code manipulates character by character   *)
(* (queries, display names, response bodies, formatted numbers) is a       *)
(* sequence of one-character strings.  A Python / JSON value that may be    *)
(* None is tagged: None, Str(s), Num(n), List(l), Dict(f); a dict is a      *)
(* function whose DOMAIN is the set of keys that are present.               *)
(***************************************************************************)
EXTENDS Integers, Sequences, FiniteSets, TLC

VARIABLES
    GRAPHOPPER_KEY,       \* module constant read from the environment (line 24)
    pc,                   \* position of the main thread; for a helper applied on
                          \* its own, "call" before and "return" after
    fn,                   \* entry point (main, main_gui) or helper being applied
    args,                 \* arguments of the helper
    ret,                  \* return value of the helper
    sent,                 \* requests.get calls issued so far, in order
    shown,                \* last message shown to the user (messagebox or print)
    raised,               \* last exception that escaped a handler, "" if none
    \* RoutePlannerGUI
    locations,            \* self.locations
    current_suggestions,  \* self.current_suggestions
    route_data,           \* self.route_data
    route_path,           \* self.route_path
    suggestions_listbox,  \* rows of self.suggestions_listbox
    locations_listbox,    \* rows of self.locations_listbox
    summary_text,         \* content of self.summary_text
    status_var,           \* self.status_var
    vehicle_var,          \* self.vehicle_var
    threads,              \* background threads started and still running
    after,                \* callbacks queued with root.after(0, ...)
    modal,                \* handlers suspended in a messagebox or in root.update()
    exported,             \* the file export_route wrote last, None before
    \* main
    vehicle,              \* vehicle
    names,                \* names
    coords,               \* coords
    hits,                 \* hits, the candidates offered for selection
    path,                 \* path
    printed,              \* the summary print_summary wrote
    exit_code             \* argument of sys.exit, None while running

guiVars == <<locations, current_suggestions, route_data, route_path,
             suggestions_listbox, locations_listbox, summary_text, status_var,
             vehicle_var, threads, after, modal, exported>>

cliVars == <<vehicle, names, coords, hits, path, printed, exit_code>>

vars == <<GRAPHOPPER_KEY, pc, fn, args, ret, sent, shown, raised, guiVars, cliVars>>

-----------------------------------------------------------------------------
(* Bounds of the model *)

MaxQueryLen == 3
MaxBelow == 2
MaxLimit == 12
MaxHits == 3
MaxOver == 4
MaxPoints == 3
MaxSeconds == 3700
MaxMetres == 130
MaxLocations == 3
MaxRequests == 3

-----------------------------------------------------------------------------
(* Python values *)

None == [t |-> "None"]
Str(s) == [t |-> "str", v |-> s]
Num(n) == [t |-> "num", v |-> n]
List(l) == [t |-> "list", v |-> l]
Dict(f) == [t |-> "dict", v |-> f]

EmptyStr == Str(<<>>)
EmptyList == List(<<>>)
EmptyDict == Dict(<<>>)

\* bool(v)
Truthy(v) ==
    CASE v.t = "None" -> FALSE
      [] v.t = "str"  -> Len(v.v) > 0
      [] v.t = "num"  -> v.v # 0
      [] v.t = "list" -> Len(v.v) > 0
      [] v.t = "dict" -> DOMAIN v.v # {}

\* a or b
Or(a, b) == IF Truthy(a) THEN a ELSE b

\* d.get(k, default)
Get(d, k, default) == IF k \in DOMAIN d.v THEN d.v[k] ELSE default

Min(a, b) == IF a < b THEN a ELSE b
Max(a, b) == IF a > b THEN a ELSE b

Whitespace == {" ", "\t", "\n"}

RECURSIVE LStrip(_)
LStrip(s) ==
    IF s # <<>> /\ Head(s) \in Whitespace THEN LStrip(Tail(s)) ELSE s

RECURSIVE RStrip(_)
RStrip(s) ==
    IF s # <<>> /\ s[Len(s)] \in Whitespace
    THEN RStrip(SubSeq(s, 1, Len(s) - 1)) ELSE s

\* str.strip() left out: the text is used as typed
Strip_absent(s) == s

\* str.strip()
Strip(s) == RStrip(LStrip(s))

\* sep.join(parts), parts a sequence of character sequences
RECURSIVE Join(_, _)
Join(sep, parts) ==
    IF parts = <<>> THEN <<>>
    ELSE IF Len(parts) = 1 THEN parts[1]
    ELSE parts[1] \o sep \o Join(sep, Tail(parts))

\* s[:n + 1]: one character too many
Take_long(s, n) == SubSeq(s, 1, Min(n + 1, Len(s)))

\* s[:n]
Take(s, n) == SubSeq(s, 1, Min(n, Len(s)))

Digits == <<"0", "1", "2", "3", "4", "5", "6", "7", "8", "9">>

RECURSIVE NatToStr(_)
NatToStr(n) ==
    IF n < 10 THEN <<Digits[n + 1]>>
    ELSE NatToStr(n \div 10) \o <<Digits[(n % 10) + 1]>>

\* str(n) of an int
IntToStr(n) == IF n < 0 THEN <<"-">> \o NatToStr(-n) ELSE NatToStr(n)

\* str(v)
PyStr(v) ==
    CASE v.t = "None" -> <<"N", "o", "n", "e">>
      [] v.t = "num"  -> IntToStr(v.v)
      [] v.t = "str"  -> v.v

IsDigit(c) == \E d \in 1..10 : Digits[d] = c
DigitValue(c) == (CHOOSE d \in 1..10 : Digits[d] = c) - 1

RECURSIVE StrToNat(_)
StrToNat(s) ==
    IF s = <<>> THEN 0
    ELSE 10 * StrToNat(SubSeq(s, 1, Len(s) - 1)) + DigitValue(s[Len(s)])

AllDigits(s) == s # <<>> /\ \A i \in 1..Len(s) : IsDigit(s[i])

\* str.isdigit() and int(s) of a text of digits
IsDigitStr(s) == AllDigits(s)

-----------------------------------------------------------------------------
(* Module constants, lines 24-26 *)

DEFAULT_KEY == "6c57578b-b515-4eac-9303-166acf4ca72b"
GEOCODE_URL == "https://graphhopper.com/api/1/geocode"
ROUTE_URL == "https://graphhopper.com/api/1/route"

CAR == <<"c", "a", "r">>
BIKE == <<"b", "i", "k", "e">>
FOOT == <<"f", "o", "o", "t">>

BodyCut == 200
LimitLow == 1
LimitHigh == 10
LimitDefault == 5
MetresPerKm == 1000
MileNumer == 160934
MileDenom == 100000
GeocodeTimeout == 15
RouteTimeout == 30
StatusOK == 200

\* the request sent again after the first attempt
Attempt_again(req) == <<req, req>>

\* requests.get is called once, lines 46 and 95
Attempt(req) == <<req>>

-----------------------------------------------------------------------------
(* _format_hit_display, lines 28-34 *)

CommaSpace == <<",", " ">>

\* hit.get("name", "") instead of hit.get("name", fallback_name)
_format_hit_display_own(hit, fallback_name) ==
    LET name == Get(hit, "name", EmptyStr)
        city == Get(hit, "city", EmptyStr)
        state == Get(hit, "state", EmptyStr)
        country == Get(hit, "country", EmptyStr)
        parts == SelectSeq(<<name, city, state, country>>, Truthy)
        joined == Str(Join(CommaSpace, [i \in 1..Len(parts) |-> parts[i].v]))
    IN  Or(joined, Or(name, fallback_name))

_format_hit_display(hit, fallback_name) ==
    LET name == Get(hit, "name", fallback_name)
        city == Get(hit, "city", EmptyStr)
        state == Get(hit, "state", EmptyStr)
        country == Get(hit, "country", EmptyStr)
        parts == SelectSeq(<<name, city, state, country>>, Truthy)
        joined == Str(Join(CommaSpace, [i \in 1..Len(parts) |-> parts[i].v]))
    IN  Or(joined, Or(name, fallback_name))

-----------------------------------------------------------------------------
(* geocode_suggestions, lines 36-62.  net is what requests.get does when it *)
(* is called: it raises a RequestException (net.exc) or returns a response  *)
(* with status_code, text and, for a JSON body, json.                       *)

\* the test of line 55 looking at the latitude only
MissingCoord_lat(pt) == Get(pt, "lat", None) = None

\* pt.get("lat") is None or pt.get("lng") is None, line 55
MissingCoord(pt) == Get(pt, "lat", None) = None \/ Get(pt, "lng", None) = None

\* the loop with "if not pt.get('lat') or not pt.get('lng')": drops 0 too
RECURSIVE GeocodeLoop_falsy(_, _, _, _)
GeocodeLoop_falsy(hits_raw, i, query, acc) ==
    IF i > Len(hits_raw) THEN acc
    ELSE LET h == hits_raw[i]
             pt == Or(Get(h, "point", EmptyDict), EmptyDict)
             name == _format_hit_display(h, Str(query))
         IN  IF ~Truthy(Get(pt, "lat", None)) \/ ~Truthy(Get(pt, "lng", None))
             THEN GeocodeLoop_falsy(hits_raw, i + 1, query, acc)
             ELSE GeocodeLoop_falsy(hits_raw, i + 1, query,
                      Append(acc, [name |-> name,
                                    lat |-> Get(pt, "lat", None),
                                    lng |-> Get(pt, "lng", None)]))

\* the loop of lines 51-57 over hits_raw[i..]
RECURSIVE GeocodeLoop(_, _, _, _)
GeocodeLoop(hits_raw, i, query, acc) ==
    IF i > Len(hits_raw) THEN acc
    ELSE LET h == hits_raw[i]
             pt == Or(Get(h, "point", EmptyDict), EmptyDict)
             name == _format_hit_display(h, Str(query))
         IN  IF MissingCoord(pt)
             THEN GeocodeLoop(hits_raw, i + 1, query, acc)
             ELSE GeocodeLoop(hits_raw, i + 1, query,
                      Append(acc, [name |-> name,
                                    lat |-> Get(pt, "lat", None),
                                    lng |-> Get(pt, "lng", None)]))

\* max(1, min(10, int(limit or 5)))
ClampLimit(limit) == Max(LimitLow, Min(LimitHigh, Or(limit, Num(LimitDefault)).v))

geocode_suggestions(key, query0, limit, net) ==
    LET query == Strip(Or(query0, EmptyStr).v)
    IN  IF query = <<>>
        THEN [ret |-> [ok |-> FALSE, hits |-> <<>>,
                       msg |-> [fmt |-> "Empty location."]],
              sent |-> <<>>]
        ELSE
          LET params == [q |-> query, limit |-> ClampLimit(limit), key |-> key]
              req == [url |-> GEOCODE_URL, params |-> params,
                      timeout |-> GeocodeTimeout]
              found == GeocodeLoop(Or(Get(net.json, "hits", EmptyList), EmptyList).v,
                                   1, query, <<>>)
              r == IF net.exc
                   THEN [ok |-> FALSE, hits |-> <<>>,
                         msg |-> [fmt |-> "Geocode error: {e}"]]
                   ELSE IF net.status_code # StatusOK
                   THEN [ok |-> FALSE, hits |-> <<>>,
                         msg |-> [fmt |-> "Geocode HTTP {status_code}: {text}",
                                  status_code |-> net.status_code,
                                  text |-> Take(net.text, BodyCut)]]
                   ELSE IF found = <<>>
                   THEN [ok |-> FALSE, hits |-> <<>>,
                         msg |-> [fmt |-> "No geocoding results for '{query}'.",
                                  query |-> query]]
                   ELSE [ok |-> TRUE, hits |-> found, msg |-> [fmt |-> ""]]
          IN  [ret |-> r, sent |-> Attempt(req)]

-----------------------------------------------------------------------------
(* route_points, lines 88-103.  points is a sequence of pairs <<lat, lng>>; *)
(* the request parameters are the list of (name, value) pairs of line 95.   *)

Param(k, v) == [k |-> k, v |-> v]

\* f"{lat},{lng}"
PointText(pt) == PyStr(pt[1]) \o <<",">> \o PyStr(pt[2])

\* the comprehension of line 93 walking the points from the last to the first
point_params_reversed(points) ==
    [i \in 1..Len(points) |-> Param("point", PointText(points[Len(points) + 1 - i]))]

\* line 93
point_params(points) ==
    [i \in 1..Len(points) |-> Param("point", PointText(points[i]))]

\* "paths" in data, instead of the truth value of data.get("paths")
NoPaths_KeyOnly(data) == "paths" \notin DOMAIN data.v

\* not data.get("paths"), line 99
NoPaths(data) == ~Truthy(Get(data, "paths", None))

route_points(key, points, veh, net) ==
    LET params == <<Param("key", key), Param("vehicle", veh),
                    Param("points_encoded", "false")>>
        req == [url |-> ROUTE_URL, params |-> params \o point_params(points),
                timeout |-> RouteTimeout]
        r == IF net.exc
             THEN [ok |-> FALSE, msg |-> [fmt |-> "Route error: {e}"]]
             ELSE IF net.status_code # StatusOK
             THEN [ok |-> FALSE,
                   msg |-> [fmt |-> "Route HTTP {status_code}: {text}",
                            status_code |-> net.status_code,
                            text |-> Take(net.text, BodyCut)]]
             ELSE IF NoPaths(net.json)
             THEN [ok |-> FALSE,
                   msg |-> [fmt |-> "No route found for the given points."]]
             ELSE [ok |-> TRUE, data |-> net.json, msg |-> [fmt |-> ""]]
    IN  [ret |-> r, sent |-> Attempt(req)]

\* value["paths"][0] as lines 699 and 873 evaluate it: the element, or the
\* exception the subscript raises
FirstPath(data) ==
    IF "paths" \notin DOMAIN data.v THEN [raised |-> "KeyError"]
    ELSE IF data.v.paths.t # "list" THEN [raised |-> "TypeError"]
    ELSE IF data.v.paths.v = <<>> THEN [raised |-> "IndexError"]
    ELSE [raised |-> "", path |-> data.v.paths.v[1]]

-----------------------------------------------------------------------------
(* format_duration, lines 105-109 *)

\* f"{n:02d}"
Pad02(n) == IF Len(IntToStr(n)) < 2 THEN <<"0">> \o IntToStr(n) ELSE IntToStr(n)

\* the seconds rounded to the nearest instead of ms // 1000
format_duration_rounded(ms) ==
    LET s0 == (ms + 500) \div 1000
        h == s0 \div 3600
        s1 == s0 % 3600
        m == s1 \div 60
        s == s1 % 60
    IN  Pad02(h) \o <<":">> \o Pad02(m) \o <<":">> \o Pad02(s)

format_duration(ms) ==
    LET s0 == ms \div 1000
        h == s0 \div 3600
        s1 == s0 % 3600
        m == s1 \div 60
        s == s1 % 60
    IN  Pad02(h) \o <<":">> \o Pad02(m) \o <<":">> \o Pad02(s)

-----------------------------------------------------------------------------
(* The summary of print_summary (lines 111-122) and of display_route (lines *)
(* 703-726).  km = dist_m / 1000 and miles = km / 1.60934 are floats shown  *)
(* with f"{x:.2f}": the quotient numer / denom rounded to hundredths.  When *)
(* the quotient lies exactly between two hundredths the digit printed       *)
(* depends on the binary value of the float, which the model leaves open    *)
(* (tieUp).                                                                 *)

\* the hundredths cut off instead of rounded
Fixed2_truncated(numer, denom, tieUp) ==
    LET c == (100 * numer) \div denom
    IN  IntToStr(c \div 100) \o <<".">> \o Pad02(c % 100)

\* f"{numer / denom:.2f}" for numer >= 0
Fixed2(numer, denom, tieUp) ==
    LET q == (100 * numer) \div denom
        r == (100 * numer) % denom
        c == IF 2 * r > denom \/ (2 * r = denom /\ tieUp) THEN q + 1 ELSE q
    IN  IntToStr(c \div 100) \o <<".">> \o Pad02(c % 100)

\* f"{km:.2f}" with km = dist_m / 1000
KmText(dist_m, tieUp) == Fixed2(dist_m, MetresPerKm, tieUp)

\* f"{miles:.2f}" with miles = km / 1.60934
MilesText(dist_m, tieUp) == Fixed2(dist_m * (MileDenom \div MetresPerKm), MileNumer, tieUp)

LowerLetters == <<"a", "b", "c", "d", "e", "f", "g", "h", "i", "j", "k", "l", "m",
                  "n", "o", "p", "q", "r", "s", "t", "u", "v", "w", "x", "y", "z">>
UpperLetters == <<"A", "B", "C", "D", "E", "F", "G", "H", "I", "J", "K", "L", "M",
                  "N", "O", "P", "Q", "R", "S", "T", "U", "V", "W", "X", "Y", "Z">>

\* str.lower()
Lower(s) ==
    [i \in 1..Len(s) |->
        IF \E j \in 1..26 : UpperLetters[j] = s[i]
        THEN LowerLetters[CHOOSE j \in 1..26 : UpperLetters[j] = s[i]]
        ELSE s[i]]

\* str.upper()
Upper(s) ==
    [i \in 1..Len(s) |->
        IF \E j \in 1..26 : LowerLetters[j] = s[i]
        THEN UpperLetters[CHOOSE j \in 1..26 : LowerLetters[j] = s[i]]
        ELSE s[i]]

\* what print_summary prints
print_summary(p, ns, tieUp) ==
    [from |-> ns[1],
     stops |-> Tail(ns),
     vehicle |-> Or(Get(p, "profile", EmptyStr), Str(CAR)),
     km |-> KmText(p.v.distance.v, tieUp),
     miles |-> MilesText(p.v.distance.v, tieUp),
     duration |-> format_duration(p.v.time.v)]

\* what display_route puts into summary_text
display_route(p, ns, tieUp) ==
    LET veh == Get(p, "profile", Str(CAR))
    IN  [from |-> ns[1],
         stops |-> Tail(ns),
         vehicle |-> veh,
         vehicle_line |-> Upper(veh.v),
         km |-> KmText(p.v.distance.v, tieUp),
         miles |-> MilesText(p.v.distance.v, tieUp),
         duration |-> format_duration(p.v.time.v)]

\* the summary lines write_report writes, lines 132-143
write_report(p, ns, tieUp) ==
    [from |-> ns[1],
     stops |-> Tail(ns),
     vehicle |-> Or(Get(p, "profile", EmptyStr), Str(CAR)),
     km |-> KmText(p.v.distance.v, tieUp),
     miles |-> MilesText(p.v.distance.v, tieUp),
     duration |-> format_duration(p.v.time.v)]

\* route_summary of export_route_json, lines 159-175; round(km, 2) and
\* round(miles, 2) are given by their two decimals
export_route_json(p, ns, data, tieUp) ==
    [from |-> ns[1],
     to |-> IF Len(ns) > 1 THEN ns[Len(ns)] ELSE ns[1],
     waypoints |-> ns,
     vehicle |-> Get(p, "profile", Str(CAR)),
     km |-> KmText(p.v.distance.v, tieUp),
     miles |-> MilesText(p.v.distance.v, tieUp),
     distance_meters |-> p.v.distance,
     duration_ms |-> p.v.time,
     duration |-> format_duration(p.v.time.v),
     full_route_data |-> data]

\* the summary rows of export_route_csv, lines 194-209
export_route_csv(p, ns, tieUp) ==
    [from |-> ns[1],
     stops |-> Tail(ns),
     vehicle |-> Get(p, "profile", Str(CAR)),
     km |-> KmText(p.v.distance.v, tieUp),
     miles |-> MilesText(p.v.distance.v, tieUp),
     duration |-> format_duration(p.v.time.v)]

-----------------------------------------------------------------------------
(* Inputs of the geocoding call *)

\* all sequences over S of length at most n
RECURSIVE SeqsUpTo(_, _)
SeqsUpTo(S, n) ==
    IF n = 0 THEN {<<>>}
    ELSE LET shorter == SeqsUpTo(S, n - 1)
         IN  shorter \cup {Append(s, x) : s \in {t \in shorter : Len(t) = n - 1}, x \in S}

Restrict(f, keys) == [k \in keys |-> f[k]]

Keys == {"", "YOUR_API_KEY", DEFAULT_KEY}

QueryChars == {" ", "a"}
Queries == {None} \cup {Str(s) : s \in SeqsUpTo(QueryChars, MaxQueryLen)}
Limits == {None} \cup {Num(n) : n \in -MaxBelow..MaxLimit}

\* a body of n characters
Body(n) == [i \in 1..n |-> IF i % 2 = 1 THEN "x" ELSE "y"]
Bodies == {Body(n) : n \in {0, 1, BodyCut - 1, BodyCut, BodyCut + 1, BodyCut + MaxOver}}

StatusCodes == {200, 201, 204, 299, 301, 400, 401, 404, 429, 500, 503}

NetException == [exc |-> TRUE]
Response(status, text, json) ==
    [exc |-> FALSE, status_code |-> status, text |-> text, json |-> json]

\* coordinates as the geocoder may deliver them: a number (0 included) or null
CoordValues == {None, Num(0)}
PointDicts ==
    {Dict(Restrict(f, keys)) : f \in [{"lat", "lng"} -> CoordValues],
                               keys \in SUBSET {"lat", "lng"}}

\* hits for the filtering loop: a name, and a point that is absent, null or a dict
FilterHits ==
    {Dict([k \in {"name"} |-> Str(<<"A">>)]),
     Dict([name |-> Str(<<"B">>), point |-> Dict([lat |-> Num(0), lng |-> Num(0)])])}
    \cup {Dict([name |-> Str(<<"A">>), point |-> p]) : p \in {None} \cup PointDicts}

\* hits for the display name: each of the four fields absent, null, "" or set
FieldValues(c) == {None, EmptyStr, Str(<<c>>)}
GoodPoint == Dict([lat |-> Num(0), lng |-> Num(1)])
DisplayHits ==
    {Dict(Restrict([name |-> n, city |-> c, state |-> s, country |-> k,
                    point |-> GoodPoint], keys \cup {"point"})) :
         n \in FieldValues("N"), c \in FieldValues("C"),
         s \in FieldValues("S"), k \in FieldValues("K"),
         keys \in SUBSET {"name", "city", "state", "country"}}

HitsBody(l) == Response(StatusOK, <<"{", "}">>, Dict([hits |-> l]))

PlainNet == HitsBody(List(<<Dict([name |-> Str(<<"A">>), point |-> GoodPoint])>>))

\* responses with at most one hit, an absent or a null hits list, a failure
SmallNets ==
    {NetException, PlainNet, Response(StatusOK, <<"{", "}">>, EmptyDict), HitsBody(None)}
    \cup {HitsBody(List(l)) : l \in SeqsUpTo(FilterHits, 1)}

GeocodeNets ==
    SmallNets
    \cup {Response(st, b, EmptyDict) : st \in StatusCodes \ {StatusOK}, b \in Bodies}
    \cup {HitsBody(List(l)) : l \in SeqsUpTo(FilterHits, MaxHits)}
    \cup {HitsBody(List(<<h>>)) : h \in DisplayHits}

\* every query and limit against the small responses, and every response
\* against the queries that reach the network
GeocodeInputs ==
    {[query |-> q, limit |-> l, net |-> n] :
         q \in Queries, l \in Limits, n \in SmallNets}
    \cup {[query |-> q, limit |-> Num(LimitDefault), net |-> n] :
              q \in {Str(<<"a">>), Str(<<" ", "a">>)}, n \in GeocodeNets}

-----------------------------------------------------------------------------
(* The helper functions as a state machine: the initial state holds a call  *)
(* with its inputs, the action applies the function.                        *)

EmptyText == [empty |-> TRUE]

\* RoutePlannerGUI.__init__, lines 254-258, 299, 574
GuiInit ==
    /\ locations = <<>>
    /\ current_suggestions = <<>>
    /\ route_data = None
    /\ route_path = None
    /\ suggestions_listbox = <<>>
    /\ locations_listbox = <<>>
    /\ summary_text = EmptyText
    /\ status_var = "Ready"
    /\ vehicle_var = CAR
    /\ threads = <<>>
    /\ after = <<>>
    /\ modal = <<>>
    /\ exported = None

CliInit ==
    /\ vehicle = <<>>
    /\ names = <<>>
    /\ coords = <<>>
    /\ hits = <<>>
    /\ path = None
    /\ printed = EmptyText
    /\ exit_code = None

CallInit(f, inputs) ==
    /\ GRAPHOPPER_KEY \in Keys
    /\ pc = "call"
    /\ fn = f
    /\ args \in inputs
    /\ ret = None
    /\ sent = <<>>
    /\ shown = ""
    /\ raised = ""
    /\ GuiInit
    /\ CliInit

Called(f) == pc = "call" /\ fn = f
Returned(f) == pc = "return" /\ fn = f

Geocode ==
    /\ Called("geocode_suggestions")
    /\ LET r == geocode_suggestions(GRAPHOPPER_KEY, args.query, args.limit, args.net)
       IN  /\ ret' = r.ret
           /\ sent' = sent \o r.sent
    /\ pc' = "return"
    /\ UNCHANGED <<GRAPHOPPER_KEY, fn, args, shown, raised, guiVars, cliVars>>

InitGeocode == CallInit("geocode_suggestions", GeocodeInputs)
NextGeocode == Geocode
SpecGeocode == InitGeocode /\ [][NextGeocode]_vars

-----------------------------------------------------------------------------
(* route_points applied to arbitrary points, and what its two callers do    *)
(* with the value it returns.                                               *)

TRUCK == <<"t", "r", "u", "c", "k">>
Vehicles == {CAR, BIKE, FOOT, TRUCK}

PointPool == {<<Num(0), Num(0)>>, <<Num(1), Num(1)>>, <<Num(-1), Num(12)>>}

PathBike ==
    Dict([distance |-> Num(5000), time |-> Num(600000), profile |-> Str(BIKE),
          instructions |-> EmptyList])
PathNoProfile == Dict([distance |-> Num(10000), time |-> Num(3661000)])
PathEmptyProfile == Dict([distance |-> Num(0), time |-> Num(59999), profile |-> EmptyStr])
PathPool == {PathBike, PathNoProfile, PathEmptyProfile}

PathsBody(paths) == Response(StatusOK, <<"{", "}">>, Dict([paths |-> paths]))

RouteNets ==
    {NetException, Response(StatusOK, <<"{", "}">>, EmptyDict), PathsBody(None)}
    \cup {Response(st, b, EmptyDict) : st \in StatusCodes \ {StatusOK}, b \in Bodies}
    \cup {PathsBody(List(l)) : l \in SeqsUpTo(PathPool, 2)}

RouteInputs ==
    {[points |-> pts, vehicle |-> v, net |-> n] :
         pts \in SeqsUpTo(PointPool, MaxPoints), v \in Vehicles, n \in RouteNets}

Route ==
    /\ Called("route_points")
    /\ LET r == route_points(GRAPHOPPER_KEY, args.points, args.vehicle, args.net)
       IN  /\ ret' = r.ret
           /\ sent' = sent \o r.sent
    /\ pc' = "return"
    /\ UNCHANGED <<GRAPHOPPER_KEY, fn, args, shown, raised, guiVars, cliVars>>

\* the first lines of display_route: path["distance"], path["time"] and
\* names[0] raise when the key or the element is missing
DisplayRaises(p, ns) ==
    IF "distance" \notin DOMAIN p.v \/ "time" \notin DOMAIN p.v THEN "KeyError"
    ELSE IF ns = <<>> THEN "IndexError"
    ELSE ""

Dialog(cont) == [kind |-> "dialog", cont |-> cont]
Update(cont) == [kind |-> "update", cont |-> cont]
Done == [op |-> "return"]
SetStatus(text) == [op |-> "status", status |-> text]

\* RoutePlannerGUI.update_route, lines 692-701, with display_route.  The
\* error box of line 694 is open until the user closes it; line 695 runs then.
update_route(route_result, ns, tieUp) ==
    IF ~route_result.ok
    THEN /\ shown' = route_result.msg.fmt
         /\ modal' = Append(modal, Dialog(SetStatus("Route calculation failed")))
         /\ UNCHANGED <<route_data, route_path, summary_text, status_var, raised>>
    ELSE LET first == FirstPath(route_result.data)
         IN  /\ route_data' = route_result.data
             /\ IF first.raised # ""
                THEN /\ raised' = first.raised
                     /\ UNCHANGED <<route_path, summary_text, status_var>>
                ELSE /\ route_path' = first.path
                     /\ IF DisplayRaises(first.path, ns) = "KeyError"
                        THEN /\ raised' = "KeyError"
                             /\ UNCHANGED <<summary_text, status_var>>
                        ELSE IF DisplayRaises(first.path, ns) = "IndexError"
                        THEN /\ raised' = "IndexError"
                             /\ summary_text' = EmptyText
                             /\ UNCHANGED status_var
                        ELSE /\ summary_text' = display_route(first.path, ns, tieUp)
                             /\ status_var' = "Route calculated successfully"
                             /\ UNCHANGED raised
             /\ UNCHANGED <<shown, modal>>

\* main, lines 869-873
main_take_path(r) ==
    IF ~r.ok
    THEN /\ shown' = r.msg.fmt
         /\ exit_code' = Num(2)
         /\ UNCHANGED <<path, raised>>
    ELSE LET first == FirstPath(r.data)
         IN  /\ path' = IF first.raised = "" THEN first.path ELSE path
             /\ raised' = first.raised
             /\ UNCHANGED <<exit_code, shown>>

\* the GUI receives the value route_points returned, with one name per point
RouteToGui ==
    /\ Returned("route_points")
    /\ \E tieUp \in BOOLEAN :
         update_route(ret, [i \in 1..Len(args.points) |-> Str(PointText(args.points[i]))],
                      tieUp)
    /\ pc' = "update_route"
    /\ UNCHANGED <<GRAPHOPPER_KEY, fn, args, ret, sent, locations,
                   current_suggestions, suggestions_listbox, locations_listbox,
                   vehicle_var, threads, after, exported, cliVars>>

\* main receives the value route_points returned
RouteToMain ==
    /\ Returned("route_points")
    /\ main_take_path(ret)
    /\ pc' = "main"
    /\ UNCHANGED <<GRAPHOPPER_KEY, fn, args, ret, sent, guiVars,
                   vehicle, names, coords, hits, printed>>

InitRoute == CallInit("route_points", RouteInputs)
NextRoute == Route \/ RouteToGui \/ RouteToMain
SpecRoute == InitRoute /\ [][NextRoute]_vars

-----------------------------------------------------------------------------
(* The two network calls against every status and body *)

TransportNets ==
    {NetException, PlainNet, PathsBody(List(<<PathBike>>))}
    \cup {Response(st, b, EmptyDict) : st \in StatusCodes, b \in Bodies}

InitTransport ==
    \/ CallInit("geocode_suggestions",
                {[query |-> q, limit |-> Num(LimitDefault), net |-> n] :
                     q \in {Str(<<"a">>), Str(<<"a", " ">>)}, n \in TransportNets})
    \/ CallInit("route_points",
                {[points |-> pts, vehicle |-> CAR, net |-> n] :
                     pts \in SeqsUpTo(PointPool, 2), n \in TransportNets})
NextTransport == Geocode \/ Route
SpecTransport == InitTransport /\ [][NextTransport]_vars

-----------------------------------------------------------------------------
(* format_duration and the two summaries applied to durations and paths *)

Durations ==
    {s * 1000 + r : s \in 0..MaxSeconds, r \in {0, 1, 999}}
    \cup {59999, 600000, 3661000, 359999999, 360000000}

Distances == 0..MaxMetres \cup {999, 1000, 1005, 5000, 10000, 100000}

SummaryPaths ==
    {Dict(Restrict([distance |-> Num(d), time |-> Num(t), profile |-> pr], keys)) :
         d \in Distances, t \in {0, 59999, 600000},
         pr \in {EmptyStr, Str(BIKE)},
         keys \in {{"distance", "time"}, {"distance", "time", "profile"}}}

NameLists == {<<Str(<<"A">>), Str(<<"B">>)>>, <<Str(<<"A">>), Str(<<"B">>), Str(<<"A">>)>>}

SummaryInputs ==
    {[path |-> p, names |-> ns, tieUp |-> t] :
         p \in SummaryPaths, ns \in NameLists, t \in BOOLEAN}

FormatDuration ==
    /\ Called("format_duration")
    /\ ret' = format_duration(args.ms)
    /\ pc' = "return"
    /\ UNCHANGED <<GRAPHOPPER_KEY, fn, args, sent, shown, raised, guiVars, cliVars>>

PrintSummary ==
    /\ Called("print_summary")
    /\ ret' = print_summary(args.path, args.names, args.tieUp)
    /\ pc' = "return"
    /\ UNCHANGED <<GRAPHOPPER_KEY, fn, args, sent, shown, raised, guiVars, cliVars>>

DisplayRoute ==
    /\ Called("display_route")
    /\ ret' = display_route(args.path, args.names, args.tieUp)
    /\ pc' = "return"
    /\ UNCHANGED <<GRAPHOPPER_KEY, fn, args, sent, shown, raised, guiVars, cliVars>>

WriteReport ==
    /\ Called("write_report")
    /\ ret' = write_report(args.path, args.names, args.tieUp)
    /\ pc' = "return"
    /\ UNCHANGED <<GRAPHOPPER_KEY, fn, args, sent, shown, raised, guiVars, cliVars>>

ExportRouteJson ==
    /\ Called("export_route_json")
    /\ ret' = export_route_json(args.path, args.names,
                                Dict([paths |-> List(<<args.path>>)]), args.tieUp)
    /\ pc' = "return"
    /\ UNCHANGED <<GRAPHOPPER_KEY, fn, args, sent, shown, raised, guiVars, cliVars>>

ExportRouteCsv ==
    /\ Called("export_route_csv")
    /\ ret' = export_route_csv(args.path, args.names, args.tieUp)
    /\ pc' = "return"
    /\ UNCHANGED <<GRAPHOPPER_KEY, fn, args, sent, shown, raised, guiVars, cliVars>>

InitSummary ==
    \/ CallInit("format_duration", {[ms |-> ms] : ms \in Durations})
    \/ CallInit("print_summary", SummaryInputs)
    \/ CallInit("display_route", SummaryInputs)
    \/ CallInit("write_report", SummaryInputs)
    \/ CallInit("export_route_json", SummaryInputs)
    \/ CallInit("export_route_csv", SummaryInputs)
NextSummary ==
    \/ FormatDuration \/ PrintSummary \/ DisplayRoute
    \/ WriteReport \/ ExportRouteJson \/ ExportRouteCsv
SpecSummary == InitSummary /\ [][NextSummary]_vars

-----------------------------------------------------------------------------
(* The program: main_gui with the handlers of RoutePlannerGUI, or main.      *)
(*                                                                          *)
(* The Tk main loop runs one handler at a time.  A handler that opens a      *)
(* messagebox or calls root.update() is suspended there (modal) while the    *)
(* event loop inside keeps running the callbacks queued with root.after;    *)
(* Resume continues the handler suspended last.  Background threads run at   *)
(* any time; each issues its request and queues its callback.                *)
(*                                                                          *)
(* shown is the text shown or printed last; a formatted text is named by    *)
(* its template, a status text by its words without the icon.               *)

AppQueries == {<<" ">>, <<"a">>, <<" ", "a", " ">>}

HitA == Dict([name |-> Str(<<"A">>), point |-> Dict([lat |-> Num(0), lng |-> Num(0)])])
HitB == Dict([name |-> Str(<<"B">>), city |-> Str(<<"C">>),
              point |-> Dict([lat |-> Num(1), lng |-> Num(1)])])
HitNoCoord == Dict([name |-> Str(<<"B">>), point |-> Dict([lat |-> Num(1), lng |-> None])])

AppGeoNets ==
    {NetException, HitsBody(EmptyList), HitsBody(List(<<HitA, HitNoCoord, HitB>>))}

AppRouteNets ==
    {Response(500, Body(1), EmptyDict), PathsBody(EmptyList),
     PathsBody(List(<<PathNoProfile, PathBike>>))}

ConfigMessage ==
    "Please set GRAPHHOPPER_KEY environment variable or replace YOUR_API_KEY in the code."

\* the test for the empty credential only
KeyMissing_empty == GRAPHOPPER_KEY = ""

\* GRAPHOPPER_KEY in ("", "YOUR_API_KEY"), lines 801 and 810
KeyMissing == GRAPHOPPER_KEY \in {"", "YOUR_API_KEY"}

\* lines 890-896: main() with --cli, main_gui() otherwise
Init ==
    /\ GRAPHOPPER_KEY \in Keys
    /\ pc = "start"
    /\ fn \in {"main", "main_gui"}
    /\ args = <<>>
    /\ ret = None
    /\ sent = <<>>
    /\ shown = ""
    /\ raised = ""
    /\ GuiInit
    /\ CliInit

\* requests issued, or about to be issued by a thread
Committed ==
    Len(sent) + Len(threads) + Cardinality({i \in 1..Len(modal) : modal[i].cont.op = "thread"})

\* the sequence without its last element, whatever the index
RemoveAt_last(q, i) == SubSeq(q, 1, Len(q) - 1)

\* del q[i], q.pop(i)
RemoveAt(q, i) == SubSeq(q, 1, i - 1) \o SubSeq(q, i + 1, Len(q))

\* listbox.curselection(): no row (-1 here) or a row of the listbox
Selections(listbox) == {-1} \cup (0..(Len(listbox) - 1))

Warn(text) ==
    /\ shown' = text
    /\ modal' = Append(modal, Dialog(Done))

\* main_gui, lines 799-807
MainGui ==
    /\ pc = "start" /\ fn = "main_gui"
    /\ IF KeyMissing
       THEN shown' = ConfigMessage /\ pc' = "exit"
       ELSE pc' = "mainloop" /\ UNCHANGED shown
    /\ UNCHANGED <<GRAPHOPPER_KEY, fn, args, ret, sent, raised, guiVars, cliVars>>

Idle == pc = "mainloop" /\ modal = <<>>

\* search_location, lines 595-602; the thread of line 612 starts when
\* root.update() returns
SearchLocation ==
    /\ Idle
    /\ \E text \in AppQueries :
         LET query == Strip(text)
         IN  IF query = <<>>
             THEN /\ Warn("Please enter a location to search.")
                  /\ UNCHANGED status_var
             ELSE /\ Committed < MaxRequests
                  /\ status_var' = "Searching for locations..."
                  /\ modal' = Append(modal,
                         Update([op |-> "thread",
                                 thread |-> [target |-> "do_search", query |-> query]]))
                  /\ UNCHANGED shown
    /\ UNCHANGED <<exported, GRAPHOPPER_KEY, pc, fn, args, ret, sent, raised, locations,
                   current_suggestions, route_data, route_path, suggestions_listbox,
                   locations_listbox, summary_text, vehicle_var, threads, after,
                   cliVars>>

\* the rows of the listbox with the last hit left out
ListboxRows_short(hs) == [i \in 1..(Len(hs) - 1) |-> hs[i].name]

\* the insert loop of update_suggestions, lines 624-625: one row per hit, the
\* name of the hit, in the order of the hits
ListboxRows(hs) == [i \in 1..Len(hs) |-> hs[i].name]

\* update_suggestions, lines 614-631
update_suggestions(sugg) ==
    IF ~sugg.ok
    THEN /\ suggestions_listbox' = <<>>
         /\ current_suggestions' = <<>>
         /\ shown' = sugg.msg.fmt
         /\ modal' = Append(modal, Dialog(SetStatus("Search failed")))
         /\ UNCHANGED status_var
    ELSE /\ current_suggestions' = sugg.hits
         /\ suggestions_listbox' = ListboxRows(sugg.hits)
         /\ status_var' = IF sugg.hits # <<>> THEN "Found {n} suggestion(s)"
                          ELSE "No suggestions found"
         /\ UNCHANGED <<shown, modal>>

\* the size test of calculate_route with one location accepted
TooFewLocations_one(locs) == Len(locs) < 1

\* len(self.locations) < 2, line 671
TooFewLocations(locs) == Len(locs) < 2

\* add_location, lines 633-647, with the row sel selected (-1: none)
AddLocationAt(sel) ==
    /\ Idle
    /\   IF sel = -1
         THEN /\ Warn("Please select a location from suggestions.")
              /\ UNCHANGED <<locations, locations_listbox, status_var,
                             suggestions_listbox, current_suggestions>>
         ELSE IF sel < Len(current_suggestions)
         THEN LET hit == current_suggestions[sel + 1]
              IN  /\ Len(locations) < MaxLocations
                  /\ locations' = Append(locations, hit)
                  /\ locations_listbox' = Append(locations_listbox, hit.name)
                  /\ status_var' = "Added: {name}"
                  /\ suggestions_listbox' = <<>>
                  /\ current_suggestions' = <<>>
                  /\ UNCHANGED <<shown, modal>>
         ELSE UNCHANGED <<locations, locations_listbox, status_var,
                          suggestions_listbox, current_suggestions, shown, modal>>
    /\ UNCHANGED <<exported, GRAPHOPPER_KEY, pc, fn, args, ret, sent, raised, route_data,
                   route_path, summary_text, vehicle_var, threads, after, cliVars>>

AddLocation == \E sel \in Selections(suggestions_listbox) : AddLocationAt(sel)

\* remove_location, lines 649-658, with the row sel selected (-1: none);
\* list.pop raises IndexError past the end
RemoveLocationAt(sel) ==
    /\ Idle
    /\   IF sel = -1
         THEN /\ Warn("Please select a location to remove.")
              /\ UNCHANGED <<locations, locations_listbox, status_var, raised>>
         ELSE /\ locations_listbox' = RemoveAt(locations_listbox, sel + 1)
              /\ IF sel < Len(locations)
                 THEN /\ locations' = RemoveAt(locations, sel + 1)
                      /\ status_var' = "Location removed"
                      /\ UNCHANGED raised
                 ELSE /\ raised' = "IndexError"
                      /\ UNCHANGED <<locations, status_var>>
              /\ UNCHANGED <<shown, modal>>
    /\ UNCHANGED <<exported, GRAPHOPPER_KEY, pc, fn, args, ret, sent, current_suggestions,
                   route_data, route_path, suggestions_listbox, summary_text,
                   vehicle_var, threads, after, cliVars>>

RemoveLocation == \E sel \in Selections(locations_listbox) : RemoveLocationAt(sel)

\* clear_locations, lines 660-662: the question is asked; the answer comes
\* with Resume
ClearLocations ==
    /\ Idle
    /\ IF locations # <<>>
       THEN /\ shown' = "Clear all locations?"
            /\ modal' = Append(modal, Dialog([op |-> "clear"]))
       ELSE UNCHANGED <<shown, modal>>
    /\ UNCHANGED <<exported, GRAPHOPPER_KEY, pc, fn, args, ret, sent, raised, locations,
                   current_suggestions, route_data, route_path, suggestions_listbox,
                   locations_listbox, summary_text, status_var, vehicle_var, threads,
                   after, cliVars>>

\* calculate_route, lines 670-680; the thread of line 690 starts when
\* root.update() returns
CalculateRoute ==
    /\ Idle
    /\ IF TooFewLocations(locations)
       THEN /\ Warn("Please add at least 2 locations to calculate a route.")
            /\ UNCHANGED status_var
       ELSE /\ Committed < MaxRequests
            /\ status_var' = "Calculating route..."
            /\ modal' = Append(modal,
                   Update([op |-> "thread",
                           thread |-> [target |-> "do_calculate",
                                       vehicle |-> vehicle_var,
                                       coords |-> [i \in 1..Len(locations) |->
                                                     <<locations[i].lat, locations[i].lng>>],
                                       names |-> [i \in 1..Len(locations) |->
                                                     locations[i].name]]]))
            /\ UNCHANGED shown
    /\ UNCHANGED <<exported, GRAPHOPPER_KEY, pc, fn, args, ret, sent, raised, locations,
                   current_suggestions, route_data, route_path, suggestions_listbox,
                   locations_listbox, summary_text, vehicle_var, threads, after,
                   cliVars>>

\* the radio buttons pressed here
GuiVehicles == {CAR, BIKE}

\* a radio button of lines 304-315 is pressed
SelectVehicle ==
    /\ Idle
    /\ \E v \in GuiVehicles : vehicle_var' = v
    /\ UNCHANGED <<exported, GRAPHOPPER_KEY, pc, fn, args, ret, sent, shown, raised, locations,
                   current_suggestions, route_data, route_path, suggestions_listbox,
                   locations_listbox, summary_text, status_var, threads, after, modal,
                   cliVars>>

\* Clear All confirmed with the waypoint list emptied and the route kept
ClearConfirmed_list ==
    /\ locations' = <<>>
    /\ locations_listbox' = <<>>
    /\ status_var' = "All locations cleared"
    /\ UNCHANGED <<route_data, route_path, summary_text, threads>>

\* lines 663-668
ClearConfirmed ==
    /\ locations' = <<>>
    /\ locations_listbox' = <<>>
    /\ route_data' = None
    /\ route_path' = None
    /\ summary_text' = EmptyText
    /\ status_var' = "All locations cleared"
    /\ UNCHANGED threads

\* the export buttons, lines 549-560
Formats == {"txt", "json", "csv"}

\* the file export_route writes, lines 784-789
ExportFile(format, ns, tieUp) ==
    [format |-> format,
     content |-> CASE format = "txt" -> write_report(route_path, ns, tieUp)
                   [] format = "json" ->
                        export_route_json(route_path, ns, route_data, tieUp)
                   [] format = "csv" -> export_route_csv(route_path, ns, tieUp)]

\* the exporters subscript path["distance"], path["time"] and names[0]
ExportRaises(ns) ==
    IF route_path = None THEN "TypeError" ELSE DisplayRaises(route_path, ns)

\* export_route, lines 758-768: the file dialog opens; the rest comes with
\* Resume
ExportRoute ==
    /\ Idle
    /\ \E format \in Formats :
         IF route_path = None \/ locations = <<>>
         THEN Warn("Please calculate a route first.")
         ELSE /\ shown' = "Export route as {FORMAT}"
              /\ modal' = Append(modal,
                     Dialog([op |-> "export", format |-> format,
                             names |-> [i \in 1..Len(locations) |-> locations[i].name]]))
    /\ UNCHANGED <<exported, GRAPHOPPER_KEY, pc, fn, args, ret, sent, raised, locations,
                   current_suggestions, route_data, route_path, suggestions_listbox,
                   locations_listbox, summary_text, status_var, vehicle_var, threads,
                   after, cliVars>>

\* the handler suspended last continues: the messagebox is closed or
\* root.update() returns.  yes is what the outside answers where the handler
\* asks: Clear All confirmed, a file name chosen, the file written.
ResumeWith(yes) ==
    /\ pc = "mainloop" /\ modal # <<>>
    /\ LET cont == modal[Len(modal)].cont
           rest == SubSeq(modal, 1, Len(modal) - 1)
       IN  CASE cont.op = "return" ->
                 /\ modal' = rest
                 /\ UNCHANGED <<locations, locations_listbox, route_data, route_path,
                                summary_text, status_var, threads, shown, exported>>
             [] cont.op = "status" ->
                 /\ modal' = rest
                 /\ status_var' = cont.status
                 /\ UNCHANGED <<locations, locations_listbox, route_data, route_path,
                                summary_text, threads, shown, exported>>
             [] cont.op = "thread" ->
                 /\ modal' = rest
                 /\ threads' = Append(threads, cont.thread)
                 /\ UNCHANGED <<locations, locations_listbox, route_data, route_path,
                                summary_text, status_var, shown, exported>>
             [] cont.op = "clear" ->
                 \* askyesno, line 662
                 /\ modal' = rest
                 /\ IF yes
                    THEN ClearConfirmed
                    ELSE UNCHANGED <<locations, locations_listbox, route_data,
                                     route_path, summary_text, status_var, threads>>
                 /\ UNCHANGED <<shown, exported>>
             [] cont.op = "export" ->
                 \* asksaveasfilename has returned, lines 778-782
                 /\ IF yes
                    THEN /\ status_var' = "Exporting to {FORMAT}..."
                         /\ modal' = Append(rest, Update([op |-> "write",
                                                          format |-> cont.format,
                                                          names |-> cont.names]))
                    ELSE /\ modal' = rest
                         /\ UNCHANGED status_var
                 /\ UNCHANGED <<locations, locations_listbox, route_data, route_path,
                                summary_text, threads, shown, exported>>
             [] cont.op = "write" ->
                 \* lines 784-797
                 /\ IF yes /\ ExportRaises(cont.names) = ""
                    THEN /\ \E tieUp \in BOOLEAN :
                              exported' = ExportFile(cont.format, cont.names, tieUp)
                         /\ shown' = "Route exported successfully to: {filename}"
                         /\ modal' = Append(rest, Dialog(SetStatus("Exported to {filename}")))
                    ELSE /\ shown' = "Failed to export route: {e}"
                         /\ modal' = Append(rest, Dialog(SetStatus("Export failed")))
                         /\ UNCHANGED exported
                 /\ UNCHANGED <<locations, locations_listbox, route_data, route_path,
                                summary_text, status_var, threads>>
    /\ UNCHANGED <<GRAPHOPPER_KEY, pc, fn, args, ret, sent, raised,
                   current_suggestions, suggestions_listbox, vehicle_var, after, cliVars>>

Resume == \E yes \in BOOLEAN : ResumeWith(yes)

\* do_search (lines 604-607) or do_calculate (lines 682-685) runs
ThreadRun ==
    /\ pc = "mainloop"
    /\ \E i \in 1..Len(threads) :
         LET t == threads[i]
         IN  /\ threads' = RemoveAt(threads, i)
             /\ IF t.target = "do_search"
                THEN \E net \in AppGeoNets :
                       LET r == geocode_suggestions(GRAPHOPPER_KEY, Str(t.query),
                                                    Num(LimitDefault), net)
                       IN  /\ sent' = sent \o r.sent
                           /\ after' = Append(after, [callback |-> "update_suggestions",
                                                      sugg |-> r.ret])
                ELSE \E net \in AppRouteNets :
                       LET r == route_points(GRAPHOPPER_KEY, t.coords, t.vehicle, net)
                       IN  /\ sent' = sent \o r.sent
                           /\ after' = Append(after, [callback |-> "update_route",
                                                      route_result |-> r.ret,
                                                      names |-> t.names])
    /\ UNCHANGED <<exported, GRAPHOPPER_KEY, pc, fn, args, ret, shown, raised, locations,
                   current_suggestions, route_data, route_path, suggestions_listbox,
                   locations_listbox, summary_text, status_var, vehicle_var, modal,
                   cliVars>>

\* the event loop runs the callback queued first
Deliver ==
    /\ pc = "mainloop" /\ after # <<>>
    /\ after' = Tail(after)
    /\ LET cb == Head(after)
       IN  IF cb.callback = "update_suggestions"
           THEN /\ update_suggestions(cb.sugg)
                /\ UNCHANGED <<route_data, route_path, summary_text, raised>>
           ELSE /\ \E tieUp \in BOOLEAN : update_route(cb.route_result, cb.names, tieUp)
                /\ UNCHANGED <<current_suggestions, suggestions_listbox>>
    /\ UNCHANGED <<exported, GRAPHOPPER_KEY, pc, fn, args, ret, sent, locations,
                   locations_listbox, vehicle_var, threads, cliVars>>

NextGui ==
    \/ MainGui \/ SearchLocation \/ AddLocation \/ RemoveLocation \/ ClearLocations
    \/ CalculateRoute \/ SelectVehicle \/ ExportRoute \/ Resume \/ ThreadRun \/ Deliver

\* what the user types at the prompts of main
VehicleInputs == {<<>>, <<"B", "i", "k", "e", " ">>, <<"f", "o", "o", "t">>, <<"t", "r", "u", "c", "k">>}
ChoiceInputs == {<<>>, <<"0">>, <<"1">>, <<" ", "2">>, <<"9">>, <<"a">>}

\* main, lines 809-812
MainStart ==
    /\ pc = "start" /\ fn = "main"
    /\ IF KeyMissing
       THEN shown' = ConfigMessage /\ exit_code' = Num(1) /\ pc' = "exit"
       ELSE pc' = "vehicle" /\ UNCHANGED <<shown, exit_code>>
    /\ UNCHANGED <<GRAPHOPPER_KEY, fn, args, ret, sent, raised, guiVars,
                   vehicle, names, coords, hits, path, printed>>

\* profiles, line 814
Profiles == {CAR, BIKE, FOOT}

\* input(...).strip().lower() or "car", line 815
TypedVehicle(text) ==
    LET typed == Lower(Strip(text))
    IN  IF typed = <<>> THEN CAR ELSE typed

\* the typed profile taken as it is
NormalizeVehicle_raw(text) == TypedVehicle(text)

\* lines 815-818: the profile main goes on with
NormalizeVehicle(text) ==
    IF TypedVehicle(text) \notin Profiles THEN CAR ELSE TypedVehicle(text)

\* lines 814-818, with text typed at the prompt
InputVehicleOf(text) ==
    /\ pc = "vehicle"
    /\ vehicle' = NormalizeVehicle(text)
    /\ IF TypedVehicle(text) \notin Profiles
       THEN shown' = "Unknown vehicle; defaulting to 'car'."
       ELSE UNCHANGED shown
    /\ pc' = "location"
    /\ UNCHANGED <<GRAPHOPPER_KEY, fn, args, ret, sent, raised, guiVars,
                   names, coords, hits, path, printed, exit_code>>

InputVehicle == \E text \in VehicleInputs : InputVehicleOf(text)

\* len(names) < 2, line 828
TooFewNames(ns) == Len(ns) < 2

\* one pass of the loop of lines 824-841: a location is typed and looked up
InputLocation ==
    /\ pc = "location"
    /\ \E text \in AppQueries :
         LET loc == Strip(text)
         IN  IF loc = <<>>
             THEN /\ IF TooFewNames(names)
                     THEN shown' = "Need at least 2 locations. Please enter more."
                          /\ pc' = "location"
                     ELSE pc' = "route" /\ UNCHANGED shown
                  /\ UNCHANGED <<sent, hits>>
             ELSE /\ Len(sent) < MaxRequests
                  /\ Len(names) < MaxLocations
                  /\ \E net \in AppGeoNets :
                       LET r == geocode_suggestions(GRAPHOPPER_KEY, Str(loc),
                                                    Num(LimitDefault), net)
                       IN  /\ sent' = sent \o r.sent
                           /\ IF ~r.ret.ok \/ r.ret.hits = <<>>
                              THEN /\ shown' = r.ret.msg.fmt
                                   /\ pc' = "location"
                                   /\ UNCHANGED hits
                              ELSE /\ shown' = "Did you mean:"
                                   /\ hits' = r.ret.hits
                                   /\ pc' = "choice"
    /\ UNCHANGED <<GRAPHOPPER_KEY, fn, args, ret, raised, guiVars,
                   vehicle, names, coords, path, printed, exit_code>>

\* one pass of the loop of lines 843-865: text is typed
InputChoiceOf(text) ==
    /\ pc = "choice"
    /\   LET choice == Strip(text)
         IN  IF choice # <<>> /\ ~IsDigitStr(choice)
             THEN /\ shown' = "Please enter a number between 0 and {n}."
                  /\ pc' = "choice"
                  /\ UNCHANGED <<names, coords>>
             ELSE LET idx == IF choice = <<>> THEN 1 ELSE StrToNat(choice)
                  IN  IF idx = 0
                      THEN /\ pc' = "location"
                           /\ UNCHANGED <<names, coords, shown>>
                      ELSE IF idx <= Len(hits)
                      THEN /\ names' = Append(names, hits[idx].name)
                           /\ coords' = Append(coords, <<hits[idx].lat, hits[idx].lng>>)
                           /\ shown' = "{name}  ({lat}, {lng})"
                           /\ pc' = "location"
                      ELSE /\ shown' = "Out of range. Choose 1-{n} or 0 to re-enter."
                           /\ pc' = "choice"
                           /\ UNCHANGED <<names, coords>>
    /\ UNCHANGED <<GRAPHOPPER_KEY, fn, args, ret, sent, raised, guiVars,
                   vehicle, hits, path, printed, exit_code>>

InputChoice == \E text \in ChoiceInputs : InputChoiceOf(text)

\* lines 867-873
MainRoute ==
    /\ pc = "route"
    /\ \E net \in AppRouteNets :
         LET r == route_points(GRAPHOPPER_KEY, coords, vehicle, net)
         IN  /\ sent' = sent \o r.sent
             /\ main_take_path(r.ret)
             /\ pc' = IF ~r.ret.ok \/ FirstPath(r.ret.data).raised # ""
                      THEN "exit" ELSE "summary"
    /\ UNCHANGED <<GRAPHOPPER_KEY, fn, args, ret, guiVars,
                   vehicle, names, coords, hits, printed>>

\* line 874
MainSummary ==
    /\ pc = "summary"
    /\ \E tieUp \in BOOLEAN : printed' = print_summary(path, names, tieUp)
    /\ pc' = "done"
    /\ UNCHANGED <<GRAPHOPPER_KEY, fn, args, ret, sent, shown, raised, guiVars,
                   vehicle, names, coords, hits, path, exit_code>>

NextCli ==
    \/ MainStart \/ InputVehicle \/ InputLocation \/ InputChoice \/ MainRoute
    \/ MainSummary

Next == NextGui \/ NextCli
Spec == Init /\ [][Next]_vars

-----------------------------------------------------------------------------
(* The program, or route_points called on its own *)

InitRouting == Init \/ InitRoute
NextRouting == Next \/ NextRoute
SpecRouting == InitRouting /\ [][NextRouting]_vars

-----------------------------------------------------------------------------
(* Properties of geocode_suggestions *)

\* the error kinds of the specification, read off the returned message
EmptyQuery(r) == ~r.ok /\ r.msg.fmt = "Empty location."
NoResults(r) == ~r.ok /\ r.msg.fmt = "No geocoding results for '{query}'."
GeocodeTransportError(r) == ~r.ok /\ r.msg.fmt = "Geocode HTTP {status_code}: {text}"
GeocodeNetworkError(r) == ~r.ok /\ r.msg.fmt = "Geocode error: {e}"

IsBlank(q) == q = None \/ \A i \in 1..Len(q.v) : q.v[i] \in Whitespace

\* the query without its leading and trailing whitespace
Trimmed(q) ==
    LET inner == {i \in 1..Len(q.v) : q.v[i] \notin Whitespace}
        lo == CHOOSE i \in inner : \A j \in inner : i <= j
        hi == CHOOSE i \in inner : \A j \in inner : j <= i
    IN  SubSeq(q.v, lo, hi)

\* the hits of a 200 response as the geocoder sent them
RawHits(net) ==
    IF "hits" \in DOMAIN net.json.v /\ net.json.v.hits.t = "list"
    THEN net.json.v.hits.v ELSE <<>>

HasNumber(d, k) == k \in DOMAIN d.v /\ d.v[k].t = "num"
HasCoords(h) ==
    /\ "point" \in DOMAIN h.v
    /\ h.v.point.t = "dict"
    /\ HasNumber(h.v.point, "lat")
    /\ HasNumber(h.v.point, "lng")

OnlyName(h) ==
    /\ "name" \in DOMAIN h.v
    /\ Truthy(h.v.name)
    /\ \A k \in {"city", "state", "country"} : k \notin DOMAIN h.v

GeocodeAnswered ==
    /\ Returned("geocode_suggestions")
    /\ ~IsBlank(args.query)
    /\ ~args.net.exc
    /\ args.net.status_code = StatusOK

\* C2: a 200 geocoding response to a non-empty query with a limit in 1..10
\* gives NoResults when no hit has both lat and lng, and otherwise a success
\* whose list is exactly the hits having both, in response order, each with
\* non-null lat and lng; a success never has an empty list.
C2_CandidatesComplete ==
    (GeocodeAnswered /\ args.limit.t = "num" /\ args.limit.v \in LimitLow..LimitHigh) =>
        LET kept == SelectSeq(RawHits(args.net), HasCoords)
        IN  /\ ret.ok => ret.hits # <<>>
            /\ IF kept = <<>>
               THEN NoResults(ret) /\ ret.hits = <<>> /\ ret.msg.query = Trimmed(args.query)
               ELSE /\ ret.ok
                    /\ Len(ret.hits) = Len(kept)
                    /\ \A i \in 1..Len(kept) :
                         /\ ret.hits[i].lat = kept[i].v.point.v.lat
                         /\ ret.hits[i].lng = kept[i].v.point.v.lng
                         /\ ret.hits[i].lat # None /\ ret.hits[i].lng # None
                         /\ OnlyName(kept[i]) => ret.hits[i].name = kept[i].v.name

\* a response of three hits whose middle one lacks a coordinate and whose
\* others sit at latitude 0: two candidates come back, in order
C2_Witness ==
    /\ GeocodeAnswered
    /\ args.limit = Num(LimitDefault)
    /\ Len(RawHits(args.net)) = 3
    /\ ~HasCoords(RawHits(args.net)[2])
    /\ ret.ok /\ Len(ret.hits) = 2
    /\ ret.hits[1].name = Str(<<"A">>) /\ ret.hits[2].name = Str(<<"B">>)
    /\ ret.hits[1].lat = Num(0)

\* C3: an empty, whitespace-only or None query gives EmptyQuery for every
\* limit, and no request is issued.
C3_EmptyQueryNoRequest ==
    (Returned("geocode_suggestions") /\ IsBlank(args.query)) =>
        EmptyQuery(ret) /\ ret.hits = <<>> /\ sent = <<>>

C3_Witness ==
    /\ Returned("geocode_suggestions")
    /\ args.query = Str(<<" ", " ">>)
    /\ args.limit = Num(0)
    /\ EmptyQuery(ret) /\ sent = <<>>

\* C7: the limit sent to the geocoding endpoint is max(1, min(10, limit))
\* for every integer limit.
C7_LimitClamped ==
    (Returned("geocode_suggestions") /\ ~IsBlank(args.query) /\ args.limit.t = "num") =>
        /\ Len(sent) = 1
        /\ sent[1].params.limit =
               (IF args.limit.v < 1 THEN 1 ELSE IF args.limit.v > 10 THEN 10 ELSE args.limit.v)

\* the text of field k of a hit, empty when the field is absent, null or ""
OwnText(h, k) == IF k \in DOMAIN h.v /\ h.v[k].t = "str" THEN h.v[k].v ELSE <<>>
NonEmpty(s) == s # <<>>

\* the display name as the specification words it: the hit's own fields,
\* the query only when all four are empty
OwnDisplay(h, query) ==
    LET own == SelectSeq(<<OwnText(h, "name"), OwnText(h, "city"),
                           OwnText(h, "state"), OwnText(h, "country")>>, NonEmpty)
    IN  IF own # <<>> THEN Join(CommaSpace, own) ELSE query

\* the display name with the query standing in for a missing name key
QueryNamedDisplay(h, query) ==
    LET first == IF "name" \in DOMAIN h.v THEN OwnText(h, "name") ELSE query
        all == SelectSeq(<<first, OwnText(h, "city"),
                           OwnText(h, "state"), OwnText(h, "country")>>, NonEmpty)
    IN  IF all # <<>> THEN Join(CommaSpace, all) ELSE query

\* C8 as stated: every candidate's display name is the hit's own non-empty
\* name, city, state, country joined by ", ", and the query only when all
\* four are empty or absent.
C8_OwnFieldsDisplay ==
    GeocodeAnswered =>
        LET kept == SelectSeq(RawHits(args.net), HasCoords)
        IN  \A i \in 1..Len(ret.hits) :
                ret.hits[i].name = Str(OwnDisplay(kept[i], Trimmed(args.query)))

\* C8 amended: the display name joins the non-empty values of name, city,
\* state, country by ", ", where a hit without a name key takes the trimmed
\* query as its name; when nothing is non-empty it is the trimmed query.
C8_QueryNamedDisplay ==
    GeocodeAnswered =>
        LET kept == SelectSeq(RawHits(args.net), HasCoords)
        IN  /\ Len(ret.hits) = Len(kept)
            /\ \A i \in 1..Len(ret.hits) :
                ret.hits[i].name = Str(QueryNamedDisplay(kept[i], Trimmed(args.query)))

\* a hit with a city and no name key, found for the query "a": "a, C"
C8_Witness ==
    /\ GeocodeAnswered
    /\ Len(RawHits(args.net)) = 1
    /\ "name" \notin DOMAIN RawHits(args.net)[1].v
    /\ OwnText(RawHits(args.net)[1], "city") = <<"C">>
    /\ ret.ok
    /\ ret.hits[1].name = Str(<<"a", ",", " ", "C">>)

-----------------------------------------------------------------------------
(* Properties of route_points *)

RouteTransportError(r) == ~r.ok /\ r.msg.fmt = "Route HTTP {status_code}: {text}"
RouteNetworkError(r) == ~r.ok /\ r.msg.fmt = "Route error: {e}"
NoRouteFound(r) == ~r.ok /\ r.msg.fmt = "No route found for the given points."

RouteCalled == fn = "route_points" /\ pc # "call"

\* C1 as stated: route_points with fewer than two waypoints returns an error
\* and issues no request to the routing endpoint.
C1_RoutePointsRefuses ==
    (RouteCalled /\ Len(args.points) < 2) => ~ret.ok /\ sent = <<>>

IsPointParam(p) == p.k = "point"

RouteRequest(req) == req.url = ROUTE_URL
PointsOf(req) == SelectSeq(req.params, IsPointParam)
CalculateThread(t) == t.target = "do_calculate"
InProgram == fn \in {"main", "main_gui"}
LocationsWarning == "Please add at least 2 locations to calculate a route."

\* C1, amended: the callers of route_points refuse fewer than two waypoints.
\* Every routing request the program sends carries at least two points, and
\* so does every route calculation calculate_route has started or main is
\* about to make; route_points itself checks nothing.
C1_CallersRefuse ==
    InProgram =>
        /\ \A i \in 1..Len(sent) : RouteRequest(sent[i]) => Len(PointsOf(sent[i])) >= 2
        /\ \A i \in 1..Len(threads) :
               CalculateThread(threads[i]) => Len(threads[i].coords) >= 2
        /\ \A i \in 1..Len(modal) :
               (modal[i].cont.op = "thread" /\ CalculateThread(modal[i].cont.thread))
                   => Len(modal[i].cont.thread.coords) >= 2
        /\ pc = "route" => Len(coords) >= 2

\* calculate_route pressed with one location: the warning is up and no route
\* calculation has been started
C1_Witness ==
    /\ fn = "main_gui"
    /\ Len(locations) = 1
    /\ shown = LocationsWarning
    /\ modal = <<Dialog(Done)>>
    /\ threads = <<>>
    /\ \A i \in 1..Len(sent) : ~RouteRequest(sent[i])

\* C4: the routing request carries one coordinate parameter per waypoint, in
\* the order of the input, repeated waypoints included.
C4_PointsVerbatim ==
    RouteCalled =>
        /\ Len(sent) = 1
        /\ LET pp == SelectSeq(sent[1].params, IsPointParam)
           IN  /\ Len(pp) = Len(args.points)
               /\ \A i \in 1..Len(pp) : pp[i].v = PointText(args.points[i])

\* a round trip: three waypoints, the third equal to the first and different
\* from the second
C4_Witness ==
    /\ RouteCalled
    /\ Len(args.points) = 3
    /\ args.points[1] = args.points[3]
    /\ args.points[1] # args.points[2]
    /\ LET pp == SelectSeq(sent[1].params, IsPointParam)
       IN  Len(pp) = 3 /\ pp[1].v = <<"-", "1", ",", "1", "2">> /\ pp[3] = pp[1]
               /\ pp[2].v = <<"0", ",", "0">>

\* a 200 response without a usable path: paths absent, null or empty
PathsMissing(json) ==
    \/ "paths" \notin DOMAIN json.v
    \/ json.v.paths = None
    \/ json.v.paths = EmptyList

-----------------------------------------------------------------------------
(* Properties of both network calls *)

TransportError(r) ==
    IF fn = "geocode_suggestions" THEN GeocodeTransportError(r) ELSE RouteTransportError(r)

Exchanged == pc = "return" /\ sent # <<>> /\ ~args.net.exc

\* C6 as stated: the result is TransportError exactly when the status is not
\* a 2xx status.
C6_Non2xxIsTransportError ==
    Exchanged => (TransportError(ret) <=> args.net.status_code \notin 200..299)

\* C6 amended: the result is TransportError, carrying the status and the
\* first 200 characters of the body, exactly when the status is not 200.
C6_Not200IsTransportError ==
    Exchanged =>
        /\ TransportError(ret) <=> args.net.status_code # 200
        /\ TransportError(ret) =>
             /\ ret.msg.status_code = args.net.status_code
             /\ Len(ret.msg.text) = (IF Len(args.net.text) > 200 THEN 200
                                     ELSE Len(args.net.text))
             /\ \A i \in 1..Len(ret.msg.text) : ret.msg.text[i] = args.net.text[i]

\* a 201 answer with a body of 201 characters, reported with 200 of them
C6_Witness ==
    /\ Exchanged
    /\ fn = "route_points"
    /\ args.net.status_code = 201
    /\ Len(args.net.text) = 201
    /\ TransportError(ret) /\ Len(ret.msg.text) = 200

-----------------------------------------------------------------------------
(* Properties of the formatting *)

\* C9: for ms >= 0 format_duration(ms) is H:M:S with S < 60, M < 60 and
\* H*3600 + M*60 + S = ms div 1000, each field of at least two digits and
\* padded with zeros only up to two.
C9_DurationFields ==
    (Returned("format_duration") /\ args.ms >= 0) =>
        LET n == Len(ret)
            hh == SubSeq(ret, 1, n - 6)
            mm == SubSeq(ret, n - 4, n - 3)
            ss == SubSeq(ret, n - 1, n)
        IN  /\ n >= 8
            /\ ret[n - 5] = ":" /\ ret[n - 2] = ":"
            /\ AllDigits(hh) /\ AllDigits(mm) /\ AllDigits(ss)
            /\ Len(hh) > 2 => hh[1] # "0"
            /\ StrToNat(ss) < 60 /\ StrToNat(mm) < 60
            /\ StrToNat(hh) * 3600 + StrToNat(mm) * 60 + StrToNat(ss) = args.ms \div 1000
            /\ args.ms = 3661000 => ret = <<"0", "1", ":", "0", "1", ":", "0", "1">>
            /\ args.ms = 0 => ret = <<"0", "0", ":", "0", "0", ":", "0", "0">>
            /\ args.ms = 59999 => ret = <<"0", "0", ":", "0", "0", ":", "5", "9">>

C9_Witness ==
    /\ Returned("format_duration")
    /\ args.ms = 59999
    /\ ret = <<"0", "0", ":", "0", "0", ":", "5", "9">>

\* the hundredths shown by a text of the form D.DD
Hundredths(s) ==
    StrToNat(SubSeq(s, 1, Len(s) - 3)) * 100 + StrToNat(SubSeq(s, Len(s) - 1, Len(s)))

IsFixed2(s) ==
    /\ Len(s) >= 4
    /\ s[Len(s) - 2] = "."
    /\ AllDigits(SubSeq(s, 1, Len(s) - 3))
    /\ AllDigits(SubSeq(s, Len(s) - 1, Len(s)))

Abs(x) == IF x < 0 THEN -x ELSE x

SummaryShown == pc = "return" /\ fn \in {"print_summary", "display_route"}

\* C10: both summaries show metres / 1000 as kilometres and kilometres /
\* 1.60934 as miles, each to two decimals (a nearest hundredth); 10000 m is
\* 10.00 km and 6.21 mi; 5000 m in 600000 ms by bike is 5.00 km, 3.11 mi,
\* 00:10:00, profile bike.
C10_KmAndMiles ==
    SummaryShown =>
        LET d == args.path.v.distance.v
        IN  /\ IsFixed2(ret.km) /\ IsFixed2(ret.miles)
            /\ Abs(10 * Hundredths(ret.km) - d) <= 5
            /\ Abs(160934 * Hundredths(ret.miles) - 10000 * d) <= 80467
            /\ d = 10000 => /\ ret.km = <<"1", "0", ".", "0", "0">>
                            /\ ret.miles = <<"6", ".", "2", "1">>
            /\ (d = 5000 /\ args.path.v.time.v = 600000
                  /\ "profile" \in DOMAIN args.path.v /\ args.path.v.profile = Str(BIKE)) =>
                   /\ ret.km = <<"5", ".", "0", "0">>
                   /\ ret.miles = <<"3", ".", "1", "1">>
                   /\ ret.duration = <<"0", "0", ":", "1", "0", ":", "0", "0">>
                   /\ ret.vehicle = Str(BIKE)

C10_Witness ==
    /\ SummaryShown
    /\ fn = "print_summary"
    /\ args.path.v.distance.v = 5000 /\ args.path.v.time.v = 600000
    /\ "profile" \in DOMAIN args.path.v /\ args.path.v.profile = Str(BIKE)
    /\ ret.km = <<"5", ".", "0", "0">> /\ ret.miles = <<"3", ".", "1", "1">>
    /\ ret.vehicle = Str(BIKE)

Consumers ==
    {"print_summary", "write_report", "export_route_json", "export_route_csv",
     "display_route"}

\* the profile of a path, car when it is absent or empty
ProfileOrCar(p) ==
    IF "profile" \in DOMAIN p.v /\ p.v.profile # EmptyStr THEN p.v.profile ELSE Str(CAR)

\* C16: print_summary, write_report, export_route_json, export_route_csv and
\* display_route all derive the same vehicle from a path: its profile, or car
\* when the profile is absent or empty.
C16_SameVehicle ==
    (pc = "return" /\ fn \in Consumers) => ret.vehicle = ProfileOrCar(args.path)

-----------------------------------------------------------------------------
(* Properties of the waypoint list of the GUI *)

\* q without its i-th element, the others in their order
Without(q, i) == [j \in 1..(Len(q) - 1) |-> IF j < i THEN q[j] ELSE q[j + 1]]

\* what one step may do to the waypoint list
LocationsKept == locations' = locations
LocationsCleared == locations # <<>> /\ locations' = <<>>
LocationAppended ==
    \E i \in 1..Len(current_suggestions) :
        locations' = locations \o <<current_suggestions[i]>>
LocationDeleted == \E i \in 1..Len(locations) : locations' = Without(locations, i)

\* C11: the waypoints stay in the order in which they were added.  A step
\* leaves the list alone, appends one candidate at its end, deletes one
\* element or empties the list; add_location with row sel selected appends
\* candidate sel, and remove_location with row sel selected deletes exactly
\* element sel; nothing is reordered, sorted or de-duplicated.
C11_OrderPreserved ==
    [][/\ LocationsKept \/ LocationAppended \/ LocationDeleted \/ LocationsCleared
       /\ \A sel \in 0..(Len(current_suggestions) - 1) :
              AddLocationAt(sel) =>
                  locations' = locations \o <<current_suggestions[sel + 1]>>
       /\ \A sel \in 0..(Len(locations_listbox) - 1) :
              (RemoveLocationAt(sel) /\ sel < Len(locations)) =>
                  locations' = Without(locations, sel + 1)]_vars

\* three waypoints were added, the same candidate twice, and one was removed:
\* two different waypoints are left
C11_Witness ==
    /\ fn = "main_gui"
    /\ status_var = "Location removed"
    /\ Len(locations) = 2
    /\ locations[1] # locations[2]
    /\ locations_listbox = <<locations[1].name, locations[2].name>>

-----------------------------------------------------------------------------
(* Properties of the waypoints of both front-ends *)

Range(q) == {q[i] : i \in 1..Len(q)}

\* a candidate as geocode_suggestions returns it, with both coordinates
HasBothCoords(c) == c.lat # None /\ c.lng # None

\* the text of a coordinate that is None
NoneText == PyStr(None)
NamesNone(text) ==
    \E i \in 1..Len(text) :
        i + Len(NoneText) - 1 <= Len(text)
        /\ SubSeq(text, i, i + Len(NoneText) - 1) = NoneText

\* an answer at the selection prompt that selects no candidate: not a number,
\* 0, or a number past the end of the list
SelectsNothing(text) ==
    LET choice == Strip(text)
    IN  choice # <<>> /\ (~AllDigits(choice) \/ StrToNat(choice) = 0
                           \/ StrToNat(choice) > Len(hits))

WaypointsHaveCoords ==
    /\ \A i \in 1..Len(locations) : HasBothCoords(locations[i])
    /\ \A i \in 1..Len(coords) : coords[i][1] # None /\ coords[i][2] # None
    /\ Len(coords) = Len(names)
    /\ \A i \in 1..Len(sent) :
           RouteRequest(sent[i]) =>
               \A j \in 1..Len(PointsOf(sent[i])) : ~NamesNone(PointsOf(sent[i])[j].v)

\* main appends the name and the coordinates of one candidate of the list shown
NameAppended ==
    \E i \in 1..Len(hits) :
        /\ names' = Append(names, hits[i].name)
        /\ coords' = Append(coords, <<hits[i].lat, hits[i].lng>>)

\* the candidate lists are replaced by the hits of an answer that is ok
CandidatesFromAnswer ==
    /\ current_suggestions' # current_suggestions =>
           \/ current_suggestions' = <<>>
           \/ /\ after # <<>>
              /\ Head(after).callback = "update_suggestions"
              /\ Head(after).sugg.ok
              /\ current_suggestions' = Head(after).sugg.hits
    /\ hits' # hits =>
           /\ Len(sent') = Len(sent) + 1
           /\ \E net \in AppGeoNets :
                  LET answer == geocode_suggestions(GRAPHOPPER_KEY,
                                    Str(sent'[Len(sent')].params.q),
                                    Num(LimitDefault), net).ret
                  IN  answer.ok /\ hits' = answer.hits

\* C12: every waypoint of the session is one candidate of a successful
\* geocode_suggestions answer, chosen by a selection inside the list: the
\* candidate lists only ever hold the hits of an ok answer, a waypoint is
\* added only as a copy of an element of the list, every waypoint and every
\* point sent to the routing endpoint has both coordinates, and an answer
\* that is not a number, is 0 or is past the end of the list adds nothing.
C12_WaypointsAreCandidates ==
    [][/\ WaypointsHaveCoords'
       /\ CandidatesFromAnswer
       /\ LocationsKept \/ LocationAppended \/ LocationDeleted \/ LocationsCleared
       /\ (names' = names /\ coords' = coords) \/ NameAppended
       /\ \A text \in ChoiceInputs :
              (InputChoiceOf(text) /\ SelectsNothing(text)) =>
                  names' = names /\ coords' = coords]_vars

\* main has taken two waypoints and then refused an answer past the end of
\* the list
C12_Witness ==
    /\ fn = "main"
    /\ pc = "choice"
    /\ Len(names) = 2
    /\ shown = "Out of range. Choose 1-{n} or 0 to re-enter."

-----------------------------------------------------------------------------
(* Properties of the start of both entry points *)

Unconfigured == GRAPHOPPER_KEY = "" \/ GRAPHOPPER_KEY = "YOUR_API_KEY"

\* C13: with an empty or placeholder credential both entry points report the
\* configuration error and stop; no request is ever issued in that run.
C13_NoRequestWithoutKey ==
    (InProgram /\ Unconfigured) =>
        /\ sent = <<>>
        /\ threads = <<>> /\ after = <<>>
        /\ pc \in {"start", "exit"}
        /\ pc = "exit" => shown = ConfigMessage
        /\ (pc = "exit" /\ fn = "main") => exit_code = Num(1)

\* main has stopped on the placeholder credential
C13_Witness ==
    /\ fn = "main"
    /\ GRAPHOPPER_KEY = "YOUR_API_KEY"
    /\ pc = "exit"
    /\ shown = ConfigMessage
    /\ exit_code = Num(1)
    /\ sent = <<>>

-----------------------------------------------------------------------------
(* Properties of the requests of the program *)

ThreadStarting == modal # <<>> /\ modal[Len(modal)].cont.op = "thread"

\* C14: a call of geocode_suggestions or route_points sends at most one
\* request, whatever comes back; nothing is retried.  A step sends at most
\* one request, and it is the one call of a thread or of a prompt of main; a
\* thread exists only because Search or Calculate was pressed; the delivery
\* of an answer, failed or not, sends nothing and starts nothing.
C14_SingleAttempt ==
    [][/\ Len(sent') <= Len(sent) + 1
       /\ SubSeq(sent', 1, Len(sent)) = sent
       /\ sent' # sent =>
              \/ fn = "main_gui" /\ Len(threads') = Len(threads) - 1
                                 /\ Len(after') = Len(after) + 1
              \/ fn = "main" /\ pc \in {"location", "route"}
       /\ Len(threads') > Len(threads) =>
              /\ ThreadStarting
              /\ threads' = Append(threads, modal[Len(modal)].cont.thread)
              /\ sent' = sent
       /\ Len(after') < Len(after) => sent' = sent /\ threads' = threads]_vars

\* a search has failed on the network: one request was sent, the error box is
\* up and nothing else is under way
C14_Witness ==
    /\ fn = "main_gui"
    /\ Len(sent) = 1
    /\ shown = "Geocode error: {e}"
    /\ modal = <<Dialog(SetStatus("Search failed"))>>
    /\ threads = <<>>
    /\ after = <<>>

-----------------------------------------------------------------------------
(* Properties of the profile of the routing requests *)

IsVehicleParam(p) == p.k = "vehicle"
VehicleOf(req) == SelectSeq(req.params, IsVehicleParam)[1].v
KnownProfile(v) == v = CAR \/ v = BIKE \/ v = FOOT

\* the input that names a profile, by what was typed
NamesProfile(text, v) == Lower(Strip(text)) = v

ProfilesKnown ==
    /\ \A i \in 1..Len(sent) : RouteRequest(sent[i]) => KnownProfile(VehicleOf(sent[i]))
    /\ \A i \in 1..Len(threads) :
           CalculateThread(threads[i]) => KnownProfile(threads[i].vehicle)
    /\ KnownProfile(vehicle_var)
    /\ (fn = "main" /\ pc \in {"location", "choice", "route", "summary", "done"})
           => KnownProfile(vehicle)

\* C15: every routing request of the program carries car, bike or foot.  main
\* goes on with the typed profile when it is one of the three and with car
\* otherwise, without stopping; route_points sends the profile it is given.
C15_ProfileOfRequests ==
    [][/\ ProfilesKnown'
       /\ \A text \in VehicleInputs :
              InputVehicleOf(text) =>
                  /\ pc' = "location" /\ exit_code' = None
                  /\ vehicle' = IF \E v \in {CAR, BIKE, FOOT} : NamesProfile(text, v)
                                THEN Lower(Strip(text)) ELSE CAR
       /\ (sent' # sent /\ RouteRequest(sent'[Len(sent')])) =>
              \/ fn = "main" /\ VehicleOf(sent'[Len(sent')]) = vehicle
              \/ /\ fn = "main_gui"
                 /\ \E i \in 1..Len(threads) :
                        /\ CalculateThread(threads[i])
                        /\ VehicleOf(sent'[Len(sent')]) = threads[i].vehicle]_vars

\* main was given a profile it does not know and has gone on with car to the
\* prompt for the locations
C15_Witness ==
    /\ fn = "main"
    /\ pc = "location"
    /\ shown = "Unknown vehicle; defaulting to 'car'."
    /\ vehicle = CAR
    /\ exit_code = None

-----------------------------------------------------------------------------
(* Properties of Clear All *)

ClearAsked == modal # <<>> /\ modal[Len(modal)].cont.op = "clear"

\* C17: clear_locations, confirmed on a list that is not empty, leaves the
\* waypoint list empty and route_data, route_path unset; declined, or on an
\* empty list, it leaves the waypoints, the suggestions and the stored route
\* as they are.
C17_ClearAllOrNothing ==
    [][/\ (ClearAsked /\ ResumeWith(TRUE)) =>
              /\ locations' = <<>> /\ locations_listbox' = <<>>
              /\ route_data' = None /\ route_path' = None
              /\ summary_text' = EmptyText
       /\ ((ClearAsked /\ ResumeWith(FALSE)) \/ ClearLocations) =>
              UNCHANGED <<locations, locations_listbox, current_suggestions,
                          suggestions_listbox, route_data, route_path, summary_text>>
       /\ (ClearLocations /\ locations # <<>>) => ClearAsked'
       /\ (ClearLocations /\ locations = <<>>) => UNCHANGED modal]_vars

\* a route was stored for two waypoints and Clear All was confirmed: the
\* list is empty and no route is stored
C17_Witness ==
    /\ fn = "main_gui"
    /\ status_var = "All locations cleared"
    /\ locations = <<>>
    /\ route_data = None /\ route_path = None
    /\ threads = <<>> /\ after = <<>>
    /\ \E i \in 1..Len(sent) : RouteRequest(sent[i])

-----------------------------------------------------------------------------
(* Properties of export_route *)

\* the waypoint names a file lists
NamesIn(file) ==
    IF file.format = "json" THEN file.content.waypoints
    ELSE <<file.content.from>> \o file.content.stops

\* the names the stored route was calculated for, as display_route shows them
RoutedNames == <<summary_text.from>> \o summary_text.stops

FileWritten == exported' # exported

\* C18: a file export_route writes lists the names of the waypoints the
\* stored route was calculated for.
C18_ExportedNamesAreRouted ==
    [][FileWritten => NamesIn(exported') = RoutedNames]_vars

-----------------------------------------------------------------------------
(* Properties of the answers that arrive late *)

\* Clear All was confirmed and no handler has set the status since: no Search
\* and no Calculate Route has been started after it
JustCleared == fn = "main_gui" /\ status_var = "All locations cleared"

RouteUnset == route_data = None /\ route_path = None /\ summary_text = EmptyText

\* C19: once Clear All has been confirmed the stored route and the route
\* display stay unset until a new Calculate Route is started; the answer of a
\* calculation started before does not set them.
C19_ClearedStaysUnset ==
    [][(JustCleared /\ RouteUnset) => RouteUnset']_vars

\* add_location has emptied the suggestions and no handler has set the status
\* since: no Search has been issued after it
JustAdded ==
    /\ fn = "main_gui"
    /\ status_var = "Added: {name}"
    /\ current_suggestions = <<>> /\ suggestions_listbox = <<>>

\* C20: the suggestion list only ever shows the hits of the search issued
\* last; in particular, after add_location has emptied it, the answer of a
\* search issued before does not fill it again.
C20_NoLateSuggestions ==
    [][JustAdded => (current_suggestions' = <<>> /\ suggestions_listbox' = <<>>)]_vars

-----------------------------------------------------------------------------
(* Properties of the two listboxes *)

\* the names of the entries of a backing list, in order
NamesOf(entries) == [i \in 1..Len(entries) |-> entries[i].name]

\* each listbox shows its backing list, and no handler of the window has
\* raised
Mirrored ==
    /\ Len(locations_listbox) = Len(locations)
    /\ locations_listbox = NamesOf(locations)
    /\ Len(suggestions_listbox) = Len(current_suggestions)
    /\ suggestions_listbox = NamesOf(current_suggestions)
    /\ (fn = "main_gui" => raised = "")

\* what a handler that only warns leaves alone: everything but the dialog
DataUnchanged ==
    UNCHANGED <<GRAPHOPPER_KEY, pc, fn, sent, raised, locations, current_suggestions,
                route_data, route_path, suggestions_listbox, locations_listbox,
                summary_text, status_var, vehicle_var, threads, after, exported>>

\* C21: in every state of the window locations_listbox shows the names of
\* self.locations, in order and of the same length, and suggestions_listbox
\* shows those of current_suggestions; so every row that can be selected is an
\* index of the backing list, remove_location pops an index in range and never
\* raises, and remove_location and add_location with no row selected change
\* none of the lists, the route, the status or the pending work (they show
\* their warning only).
C21_ListboxesMirror ==
    /\ Mirrored
    /\ [][/\ Mirrored'
          /\ \A sel \in Selections(locations_listbox) \ {-1} :
                RemoveLocationAt(sel) =>
                  /\ sel < Len(locations)
                  /\ locations' = Without(locations, sel + 1)
                  /\ locations_listbox' = Without(locations_listbox, sel + 1)
                  /\ raised' = ""
          /\ \A sel \in Selections(suggestions_listbox) \ {-1} :
                (AddLocationAt(sel) /\ locations' # locations) =>
                  sel < Len(current_suggestions)
          /\ (AddLocationAt(-1) \/ RemoveLocationAt(-1)) => DataUnchanged]_vars

\* remove_location was run with no row selected while two locations were
\* listed: its warning is up and both rows are still shown
C21_Witness ==
    /\ fn = "main_gui"
    /\ shown = "Please select a location to remove."
    /\ modal = <<Dialog(Done)>>
    /\ Len(locations) = 2
    /\ locations_listbox = NamesOf(locations)
    /\ raised = ""

====
